---- MODULE Spec2Model ----
(***************************************************************************)
(* The BIP300 service of the wallet (src/services/bip300.ts): the list of  *)
(* sidechains (D1), the list of withdrawal bundles (D2) and the calls that *)
(* read and change them.  Every method of the service is an async function *)
(* whose body runs to completion without yielding before it touches the    *)
(* lists, so each call is one atomic action.                               *)
(*                                                                         *)
(* The service keeps no block height.  The height of the chain, the height *)
(* a call is made for and the height a bundle was proposed at belong to    *)
(* the caller; they are recorded here as history variables (height,        *)
(* lastCall.at, proposedAtHeight) that no action of the service reads.     *)
(*                                                                         *)
(* Two more services are modelled further down: the Electrum service       *)
(* (src/services/electrum.ts), whose connect suspends at an await and is   *)
(* resumed after a timer, and the wallet service (src/services/wallet.ts), *)
(* which calls the other two.  Each has its own specification; the         *)
(* variables of the services a specification does not drive keep their     *)
(* initial values.                                                         *)
(***************************************************************************)
EXTENDS Integers, Sequences, FiniteSets, TLC

(* ------------------------------ constants ------------------------------ *)

\* bip300.ts:316  if (bundle.workScore < 13150)
ackThreshold == 13150

\* bip300.ts:247  blocksRemaining: 26299
deadlineWindow == 26299

\* bip300.ts:246  workScore: 1, // Initial ACK score is 1
InitialWorkScore == 1

\* wallet.ts:31  total: 0.15 (balances are counted in units of 0.01 BTC)
DemoTotal == 15

(* -------------------------------- bounds ------------------------------- *)

\* Number of events (service calls and new blocks) of a behaviour.
MaxCalls == 4

\* Escrow numbers passed to the calls: 0 is registered and has a bundle,
\* 4 is not registered (the registry holds 0..3).
SidechainInputs == {0, 4}

\* Bundle hashes passed to the calls: "h1" is the hash of the first mock
\* bundle, "h3" is a hash no mock bundle has.
HashInputs == {"h1", "h3"}

\* ackCount values passed to simulateAckWithdrawalBundle (a number, any sign).
AckCounts == {1, -1, 13149}

\* By how many blocks the chain grows between two calls.
BlockSteps == {1, deadlineWindow}

\* Height of the chain when the service is constructed.
InitHeight == deadlineWindow

VARIABLES
    sidechains,         \* bip300.ts:10  private sidechains: SidechainInfo[]
    withdrawalBundles,  \* bip300.ts:11  private withdrawalBundles: WithdrawalBundle[]
    response,           \* the BlockchainResponse the last call returned
    lastCall,           \* the last call: its name, its arguments, the height it was made for
    height,             \* history: height of the chain (blocks processed so far)
    proposedAtHeight,   \* history: per bundle, the height it was proposed at
    calls,              \* number of events so far
    electrumNetwork,    \* electrum.ts:46  private network
    server,             \* electrum.ts:47  private server: ElectrumServer | null
    connectionStatus,   \* electrum.ts:48  private connectionStatus
    connectionPromise,  \* electrum.ts:49  private connectionPromise (0 is null, else a promise)
    promises,           \* the connection promises created so far: "pending" or "resolved"
    timers,             \* the pending setTimeout callbacks, in the order they will fire
    connectCalls,       \* the connect calls made so far and where each one stands
    microtasks,         \* the connect calls whose await has been fulfilled, in resume order
    electrumResponse,   \* what the last Electrum call that returned has returned
    wallets,            \* wallet.ts:10  private wallets: WalletAccount[]
    activeWalletId,     \* wallet.ts:11  private activeWalletId
    network,            \* wallet.ts:12 and bip300.ts:9  the network of each of the two services
    walletResponse      \* what the last call of the wallet service returned

bip300Vars == <<sidechains, withdrawalBundles, response, lastCall, height, proposedAtHeight, calls>>

electrumVars == <<electrumNetwork, server, connectionStatus, connectionPromise, promises,
                  timers, connectCalls, microtasks, electrumResponse>>

walletVars == <<wallets, activeWalletId, walletResponse>>

vars == <<bip300Vars, electrumVars, walletVars, network>>

(* ------------------------------- helpers ------------------------------- *)

\* types/blockchain.ts:153-158  BlockchainResponse<T>
Success(data) == [success |-> TRUE, data |-> data, error |-> "none"]

Failure(error) == [success |-> FALSE, data |-> "none", error |-> error]

Call(op, sidechainNumber, bundleHash, ackCount, at) ==
    [op |-> op, sidechainNumber |-> sidechainNumber, bundleHash |-> bundleHash,
     ackCount |-> ackCount, at |-> at]

\* Array.prototype.findIndex: the first index whose element satisfies the
\* test, 0 (the code's -1) when there is none.
FirstIndex(S) == IF S = {} THEN 0 ELSE CHOOSE i \in S : \A j \in S : i <= j

\* bip300.ts:128  this.sidechains.find(sc => sc.escrowNumber === escrowNumber)
findSidechain(escrowNumber) ==
    FirstIndex({i \in DOMAIN sidechains : sidechains[i].escrowNumber = escrowNumber})

\* bip300.ts:272, 306  this.withdrawalBundles.find(bundle => bundle.bundleHash === bundleHash)
findBundle(bundleHash) ==
    FirstIndex({i \in DOMAIN withdrawalBundles : withdrawalBundles[i].bundleHash = bundleHash})

\* A mutant of getSidechain: a missing sidechain is not detected.
getSidechain_NoCheck(escrowNumber) == Success("sidechain")

\* bip300.ts:126-147  getSidechain
getSidechain(escrowNumber) ==
    IF findSidechain(escrowNumber) = 0
    THEN Failure("Sidechain not found")
    ELSE Success("sidechain")

\* A mutant of HasEnoughAcks: the threshold is not checked.
HasEnoughAcks_Unchecked(bundle) == TRUE

\* bip300.ts:316  the negation of  bundle.workScore < 13150
HasEnoughAcks(bundle) == ~(bundle.workScore < ackThreshold)

(* -------------------------------- Init --------------------------------- *)

\* bip300.ts:22-94  initializeMockData
Init ==
    /\ sidechains = <<
         [escrowNumber |-> 0, isActive |-> TRUE, ctip |-> [txid |-> "7ea0", vout |-> 0]],
         [escrowNumber |-> 1, isActive |-> TRUE, ctip |-> [txid |-> "8fa1", vout |-> 0]],
         [escrowNumber |-> 2, isActive |-> TRUE, ctip |-> [txid |-> "9gb2", vout |-> 0]],
         [escrowNumber |-> 3, isActive |-> TRUE, ctip |-> [txid |-> "agc3", vout |-> 0]] >>
    /\ withdrawalBundles = <<
         [sidechainNumber |-> 0, bundleHash |-> "h1", workScore |-> 5000, blocksRemaining |-> 10000],
         [sidechainNumber |-> 2, bundleHash |-> "h2", workScore |-> 8000, blocksRemaining |-> 8000] >>
    /\ response = Success("none")
    /\ lastCall = Call("constructor", -1, "none", 0, InitHeight)
    /\ height = InitHeight
    \* a bundle with r blocks remaining of 26299 was proposed 26299 - r blocks ago
    /\ proposedAtHeight = << InitHeight - (deadlineWindow - 10000),
                             InitHeight - (deadlineWindow - 8000) >>
    /\ calls = 0
    \* electrum.ts:45-49  the fields of the singleton
    /\ electrumNetwork = "testnet"
    /\ server = "null"
    /\ connectionStatus = "disconnected"
    /\ connectionPromise = 0
    /\ promises = << >>
    /\ timers = << >>
    /\ connectCalls = << >>
    /\ microtasks = << >>
    /\ electrumResponse = Success("none")
    \* wallet.ts:22-49  initializeMockData: the demo wallet '1', total 0.15 BTC
    /\ wallets = << [id |-> 1, total |-> DemoTotal] >>
    /\ activeWalletId = 1
    /\ walletResponse = Success("none")
    \* wallet.ts:12, bip300.ts:9
    /\ network = [wallet |-> "testnet", bip300 |-> "testnet"]

(* ------------------------------- actions ------------------------------- *)

\* bip300.ts:126-147  getSidechain, as a client calls it
lookupSidechain(escrowNumber) ==
    /\ calls < MaxCalls
    /\ calls' = calls + 1
    /\ response' = getSidechain(escrowNumber)
    /\ lastCall' = Call("getSidechain", escrowNumber, "none", 0, height)
    /\ UNCHANGED <<sidechains, withdrawalBundles, height, proposedAtHeight>>

\* bip300.ts:349-372  getWithdrawalBundleState
getWithdrawalBundleState(bundleHash) ==
    /\ calls < MaxCalls
    /\ calls' = calls + 1
    /\ response' = IF findBundle(bundleHash) = 0
                   THEN Failure("Withdrawal bundle not found")
                   ELSE Success("bundle")
    /\ lastCall' = Call("getWithdrawalBundleState", -1, bundleHash, 0, height)
    /\ UNCHANGED <<sidechains, withdrawalBundles, height, proposedAtHeight>>

\* A mutant of createDepositTransaction: a deposit cancels the bundles of its
\* sidechain (their score is reset).
createDepositTransaction_Cancels(sidechainNumber) ==
    /\ calls < MaxCalls
    /\ calls' = calls + 1
    /\ response' = IF ~getSidechain(sidechainNumber).success
                   THEN Failure(getSidechain(sidechainNumber).error)
                   ELSE Success("7ea0")
    /\ withdrawalBundles' =
         [i \in DOMAIN withdrawalBundles |->
            IF withdrawalBundles[i].sidechainNumber = sidechainNumber
            THEN [withdrawalBundles[i] EXCEPT !.workScore = 0]
            ELSE withdrawalBundles[i]]
    /\ lastCall' = Call("createDepositTransaction", sidechainNumber, "none", 0, height)
    /\ UNCHANGED <<sidechains, height, proposedAtHeight>>

\* bip300.ts:192-225  createDepositTransaction (amount and feeRate are not read)
createDepositTransaction(sidechainNumber) ==
    /\ calls < MaxCalls
    /\ calls' = calls + 1
    /\ response' = IF ~getSidechain(sidechainNumber).success
                   THEN Failure(getSidechain(sidechainNumber).error)
                   ELSE Success("7ea0")
    /\ lastCall' = Call("createDepositTransaction", sidechainNumber, "none", 0, height)
    /\ UNCHANGED <<sidechains, withdrawalBundles, height, proposedAtHeight>>

\* bip300.ts:231-260  createWithdrawalBundleProposal
createWithdrawalBundleProposal(sidechainNumber, bundleHash, at) ==
    /\ calls < MaxCalls
    /\ calls' = calls + 1
    /\ withdrawalBundles' = Append(withdrawalBundles,
           [sidechainNumber |-> sidechainNumber, bundleHash |-> bundleHash,
            workScore |-> InitialWorkScore, blocksRemaining |-> deadlineWindow])
    /\ response' = Success("true")
    /\ lastCall' = Call("createWithdrawalBundleProposal", sidechainNumber, bundleHash, 0, at)
    /\ proposedAtHeight' = Append(proposedAtHeight, at)
    /\ UNCHANGED <<sidechains, height>>

\* A mutant of simulateAckWithdrawalBundle: after a call that failed, the
\* service refuses the ACK.
simulateAckWithdrawalBundle_AbortsAfterFailure(bundleHash, ackCount, at) ==
    /\ calls < MaxCalls
    /\ calls' = calls + 1
    /\ LET bundleIndex == findBundle(bundleHash) IN
         IF bundleIndex = 0 \/ ~response.success
         THEN /\ response' = Failure("Withdrawal bundle not found")
              /\ UNCHANGED withdrawalBundles
         ELSE /\ withdrawalBundles' =
                    [withdrawalBundles EXCEPT ![bundleIndex].workScore = @ + ackCount]
              /\ response' = Success("true")
    /\ lastCall' = Call("simulateAckWithdrawalBundle", -1, bundleHash, ackCount, at)
    /\ UNCHANGED <<sidechains, height, proposedAtHeight>>

\* bip300.ts:266-294  simulateAckWithdrawalBundle
simulateAckWithdrawalBundle(bundleHash, ackCount, at) ==
    /\ calls < MaxCalls
    /\ calls' = calls + 1
    /\ LET bundleIndex == findBundle(bundleHash) IN
         IF bundleIndex = 0
         THEN /\ response' = Failure("Withdrawal bundle not found")
              /\ UNCHANGED withdrawalBundles
         ELSE /\ withdrawalBundles' =
                    [withdrawalBundles EXCEPT ![bundleIndex].workScore = @ + ackCount]
              /\ response' = Success("true")
    /\ lastCall' = Call("simulateAckWithdrawalBundle", -1, bundleHash, ackCount, at)
    /\ UNCHANGED <<sidechains, height, proposedAtHeight>>

\* bip300.ts:301-343  createWithdrawalTransaction
createWithdrawalTransaction(bundleHash) ==
    /\ calls < MaxCalls
    /\ calls' = calls + 1
    /\ LET bundleIndex == findBundle(bundleHash) IN
         response' =
           IF bundleIndex = 0
           THEN Failure("Withdrawal bundle not found")
           ELSE IF ~HasEnoughAcks(withdrawalBundles[bundleIndex])
                THEN Failure("Withdrawal bundle has not received enough ACKs")
                ELSE Success("8fa1")
    /\ lastCall' = Call("createWithdrawalTransaction", -1, bundleHash, 0, height)
    /\ UNCHANGED <<sidechains, withdrawalBundles, height, proposedAtHeight>>

\* The chain grows by d blocks.  The service has no handler for a new block:
\* nothing of it changes.
NewBlock(d) ==
    /\ calls < MaxCalls
    /\ calls' = calls + 1
    /\ height' = height + d
    /\ UNCHANGED <<sidechains, withdrawalBundles, response, lastCall, proposedAtHeight>>

(* ------------------------------- callers ------------------------------ *)

\* What a caller passes.  An orderly caller makes every call for the current
\* height, names registered sidechains only, proposes only a hash that no
\* bundle has, and ACKs with a positive count; any other caller may also
\* replay the block before the current one, name an unregistered sidechain,
\* propose a hash again and pass a negative count.
CallHeights(orderly) == IF orderly THEN {height} ELSE {height, height - 1}

CallSidechains(orderly) ==
    IF orderly THEN {sc \in SidechainInputs : findSidechain(sc) # 0} ELSE SidechainInputs

ProposalHashes(orderly) ==
    IF orderly THEN {h \in HashInputs : findBundle(h) = 0} ELSE HashInputs

CallAckCounts(orderly) == IF orderly THEN {n \in AckCounts : n > 0} ELSE AckCounts

\* A call of the BIP300 service touches nothing of the other two services.
OnlyBip300 == UNCHANGED <<electrumVars, walletVars, network>>

Deposit(orderly) ==
    \E sc \in CallSidechains(orderly) : createDepositTransaction(sc) /\ OnlyBip300

Propose(orderly) ==
    \E sc \in CallSidechains(orderly), h \in ProposalHashes(orderly),
       at \in CallHeights(orderly) :
        createWithdrawalBundleProposal(sc, h, at) /\ OnlyBip300

Ack(orderly) ==
    \E h \in HashInputs, n \in CallAckCounts(orderly), at \in CallHeights(orderly) :
        simulateAckWithdrawalBundle(h, n, at) /\ OnlyBip300

Withdraw == \E h \in HashInputs : createWithdrawalTransaction(h) /\ OnlyBip300

\* The read-only queries: any escrow number, any hash.
Lookup == \E sc \in SidechainInputs : lookupSidechain(sc) /\ OnlyBip300

Query == \E h \in HashInputs : getWithdrawalBundleState(h) /\ OnlyBip300

Block == \E d \in BlockSteps : NewBlock(d) /\ OnlyBip300

\* Any caller.
Next ==
    \/ Deposit(FALSE) \/ Propose(FALSE) \/ Ack(FALSE) \/ Withdraw \/ Block
    \/ Lookup \/ Query

Spec == Init /\ [][Next]_vars

\* An orderly caller.
NextOrderly ==
    \/ Deposit(TRUE) \/ Propose(TRUE) \/ Ack(TRUE) \/ Withdraw \/ Block
    \/ Lookup \/ Query

SpecOrderly == Init /\ [][NextOrderly]_vars

(* --------------------------- Electrum service -------------------------- *)
(* src/services/electrum.ts.  JavaScript runs one task at a time: a call   *)
(* from the application and a timer callback are tasks, and the code       *)
(* after an await whose promise has been fulfilled is a microtask, which   *)
(* runs before the next task starts.                                       *)

\* Number of connect calls of a behaviour.
MaxConnects == 3

\* electrum.ts:16-30  DEFAULT_SERVERS (host:port)
DEFAULT_SERVERS ==
    [nw \in {"mainnet", "testnet", "regtest"} |->
        CASE nw = "mainnet" -> {"electrum.blockstream.info:50002", "electrum.bitcoin.de:50002",
                                "electrumx.erbium.eu:50002"}
          [] nw = "testnet" -> {"testnet.aranguren.org:51002", "electrum.blockstream.info:60002",
                                "tn.not.fyi:55002"}
          [] nw = "regtest" -> {"localhost:60401"}]

\* The networks a caller passes: two of the enum and a value that is not of
\* the enum (the parameter is a string at run time).
NetworkInputs == {"mainnet", "testnet", "signet"}

\* The customServer argument of connect: absent or a server of the caller's.
CustomServerInputs == {"none", "localhost:50001"}

\* What a call that ended by an exception leaving the method gives its caller.
Uncaught(error) == [thrown |-> error]

\* A mutant of connectCatch: the catch block throws the error again.
connectCatch_Rethrows(error) == Uncaught(error)

\* electrum.ts:102-109  the catch block of connect: the value it returns
connectCatch(error) == Failure("Error connecting to Electrum server")

\* A record of connectCalls: the promise the call awaits (0 when it never
\* awaited), whether it created that promise, and what it has returned.
ConnectCall(creator, promise, returned, result) ==
    [creator |-> creator, promise |-> promise, returned |-> returned, result |-> result]

\* The connect calls suspended on promise p, in the order they began to await.
Awaiting(p) ==
    LET waiting == {c \in DOMAIN connectCalls :
                       connectCalls[c].promise = p /\ ~connectCalls[c].returned}
        RECURSIVE InOrder(_)
        InOrder(S) == IF S = {} THEN << >>
                      ELSE LET c == CHOOSE x \in S : \A y \in S : x <= y
                           IN <<c>> \o InOrder(S \ {c})
    IN InOrder(waiting)

\* A mutant of IsConnected: the status is not looked at.
IsConnected_Unchecked == TRUE

\* electrum.ts:138, 167, 203, 234, 264  the negation of
\* this.connectionStatus !== ConnectionStatus.CONNECTED
IsConnected == ~(connectionStatus # "connected")

\* electrum.ts:54-110  connect, up to its first await or its return
connect(nw, customServer) ==
    /\ microtasks = << >>
    /\ Len(connectCalls) < MaxConnects
    /\ IF connectionStatus = "connecting" /\ connectionPromise # 0
       THEN \* 59-66: wait for the attempt that is pending
            /\ connectCalls' = Append(connectCalls,
                                      ConnectCall(FALSE, connectionPromise, FALSE, "none"))
            /\ microtasks' = IF promises[connectionPromise] = "resolved"
                             THEN <<Len(connectCalls) + 1>> ELSE << >>
            /\ UNCHANGED <<electrumNetwork, server, connectionStatus, connectionPromise,
                           promises, timers, electrumResponse>>
       ELSE IF customServer = "none" /\ nw \notin DOMAIN DEFAULT_SERVERS
       THEN \* 68-76: servers is undefined and servers.length throws; 102-109
            /\ electrumNetwork' = nw
            /\ connectionStatus' = "error"
            /\ connectionPromise' = 0
            /\ connectCalls' = Append(connectCalls,
                                      ConnectCall(FALSE, 0, TRUE, connectCatch("TypeError")))
            /\ electrumResponse' = connectCatch("TypeError")
            /\ UNCHANGED <<server, promises, timers, microtasks>>
       ELSE \* 68-95: a new attempt, its promise and its timer
            /\ electrumNetwork' = nw
            /\ connectionStatus' = "connecting"
            /\ \E s \in (IF customServer # "none" THEN {customServer} ELSE DEFAULT_SERVERS[nw]) :
                   server' = s
            /\ promises' = Append(promises, "pending")
            /\ connectionPromise' = Len(promises) + 1
            /\ timers' = Append(timers, Len(promises) + 1)
            /\ connectCalls' = Append(connectCalls,
                                      ConnectCall(TRUE, Len(promises) + 1, FALSE, "none"))
            /\ UNCHANGED <<microtasks, electrumResponse>>

\* electrum.ts:84-87  the setTimeout callback of the oldest pending attempt
TimerFires ==
    /\ microtasks = << >>
    /\ timers # << >>
    /\ connectionStatus' = "connected"
    /\ promises' = [promises EXCEPT ![Head(timers)] = "resolved"]
    /\ microtasks' = Awaiting(Head(timers))
    /\ timers' = Tail(timers)
    /\ UNCHANGED <<electrumNetwork, server, connectionPromise, connectCalls, electrumResponse>>

\* electrum.ts:63 and 95-101  connect after its await
connectResumes ==
    /\ microtasks # << >>
    /\ LET c == Head(microtasks) IN
         /\ connectionPromise' = IF connectCalls[c].creator THEN 0 ELSE connectionPromise
         /\ connectCalls' = [connectCalls EXCEPT ![c].returned = TRUE,
                                                 ![c].result = Success("none")]
         /\ electrumResponse' = Success("none")
    /\ microtasks' = Tail(microtasks)
    /\ UNCHANGED <<electrumNetwork, server, connectionStatus, promises, timers>>

\* A mutant of disconnect: the pending timers are cleared.
disconnect_ClearsTimers ==
    /\ microtasks = << >>
    /\ IF connectionStatus = "disconnected"
       THEN UNCHANGED <<connectionStatus, server, timers>>
       ELSE /\ connectionStatus' = "disconnected"
            /\ server' = "null"
            /\ timers' = << >>
    /\ electrumResponse' = Success("none")
    /\ UNCHANGED <<electrumNetwork, connectionPromise, promises, connectCalls, microtasks>>

\* electrum.ts:115-132  disconnect
disconnect ==
    /\ microtasks = << >>
    /\ IF connectionStatus = "disconnected"
       THEN UNCHANGED <<connectionStatus, server>>
       ELSE /\ connectionStatus' = "disconnected"
            /\ server' = "null"
    /\ electrumResponse' = Success("none")
    /\ UNCHANGED <<electrumNetwork, connectionPromise, promises, timers, connectCalls,
                   microtasks>>

\* The body the five queries share: the status check, then mock data.
electrumQuery(data) ==
    /\ microtasks = << >>
    /\ electrumResponse' = IF ~IsConnected
                           THEN Failure("Not connected to Electrum server")
                           ELSE Success(data)
    /\ UNCHANGED <<electrumNetwork, server, connectionStatus, connectionPromise, promises,
                   timers, connectCalls, microtasks>>

\* electrum.ts:137-161
getAddressBalance == electrumQuery("balance")

\* electrum.ts:166-197
getAddressUtxos == electrumQuery("utxos")

\* electrum.ts:202-228
getAddressHistory == electrumQuery("history")

\* electrum.ts:233-258
getTransaction == electrumQuery("transaction")

\* electrum.ts:263-284
broadcastTransaction == electrumQuery("7ea0")

\* wallet.ts:54-59  setNetwork: the wallet's network, electrumService.connect
\* (not awaited), bip300Service.setNetwork
setNetwork(nw) ==
    /\ connect(nw, "none")
    /\ network' = [wallet |-> nw, bip300 |-> nw]
    /\ UNCHANGED <<bip300Vars, walletVars>>

\* A call of the Electrum service touches nothing of the other two services.
OnlyElectrum == UNCHANGED <<bip300Vars, walletVars, network>>

Connect == \E nw \in NetworkInputs, cs \in CustomServerInputs : connect(nw, cs) /\ OnlyElectrum

Disconnect == disconnect /\ OnlyElectrum

Timer == TimerFires /\ OnlyElectrum

Resume == connectResumes /\ OnlyElectrum

ElectrumQueries ==
    /\ \/ getAddressBalance \/ getAddressUtxos \/ getAddressHistory
       \/ getTransaction \/ broadcastTransaction
    /\ OnlyElectrum

\* The networks the settings screen offers (_layout.tsx:94-113).
SetNetwork(orderly) ==
    \E nw \in (IF orderly THEN NetworkInputs \cap DOMAIN DEFAULT_SERVERS ELSE NetworkInputs) :
        setNetwork(nw)

\* Any caller of the Electrum service.  Timers fire and awaits resume.
NextElectrum ==
    \/ Connect \/ Disconnect \/ Timer \/ Resume \/ ElectrumQueries \/ SetNetwork(FALSE)

SpecElectrum ==
    Init /\ [][NextElectrum]_vars /\ WF_vars(Timer) /\ WF_vars(Resume)

\* The application as it is: the Electrum service is reached through
\* walletService.setNetwork alone, with the networks of the settings screen.
NextNetwork == SetNetwork(TRUE) \/ Timer \/ Resume \/ ElectrumQueries

SpecNetwork ==
    Init /\ [][NextNetwork]_vars /\ WF_vars(Timer) /\ WF_vars(Resume)

(* ---------------------------- wallet service --------------------------- *)
(* src/services/wallet.ts.  Balances are counted in units of 0.01 BTC.     *)

\* Number of wallets of a behaviour.
MaxWallets == 3

\* Wallet ids passed to setActiveWallet: 0 is never the id of a wallet.
WalletIdInputs == 0..MaxWallets

\* Totals updateBalances can draw: confirmed below 0.2 plus unconfirmed
\* below 0.1 (wallet.ts:223-227).
BalanceInputs == {0, DemoTotal, 29}

\* Amounts passed to depositToSidechain: the demo total, just above it and
\* above every total.
AmountInputs == {DemoTotal, DemoTotal + 1, 30}

\* What a method that returns a plain value returns.
Returned(value) == [value |-> value]

\* wallet.ts:178-180  getWallet: the index of the wallet with the id, 0 when
\* there is none
getWallet(id) == FirstIndex({i \in DOMAIN wallets : wallets[i].id = id})

\* wallet.ts:185-188  getActiveWallet (0 is null)
getActiveWallet == IF activeWalletId = 0 THEN 0 ELSE getWallet(activeWalletId)

\* A mutant of InsufficientFunds: the balance is not compared.
InsufficientFunds_Unchecked(wallet, amount) == FALSE

\* wallet.ts:327  wallet.balance.total < amount
InsufficientFunds(wallet, amount) == wallets[wallet].total < amount

\* wallet.ts:73-117  createWallet
createWallet ==
    /\ Len(wallets) < MaxWallets
    /\ wallets' = Append(wallets, [id |-> Len(wallets) + 1, total |-> 0])
    /\ activeWalletId' = Len(wallets) + 1
    /\ walletResponse' = Success("wallet and mnemonic")

\* wallet.ts:125-166  restoreWallet
restoreWallet ==
    /\ Len(wallets) < MaxWallets
    /\ wallets' = Append(wallets, [id |-> Len(wallets) + 1, total |-> 0])
    /\ activeWalletId' = Len(wallets) + 1
    /\ walletResponse' = Success("wallet")

\* A mutant of setActiveWallet: the id is not looked up.
setActiveWallet_Unchecked(id) ==
    /\ activeWalletId' = id
    /\ walletResponse' = Returned(TRUE)
    /\ UNCHANGED wallets

\* wallet.ts:193-198  setActiveWallet
setActiveWallet(id) ==
    /\ IF getWallet(id) = 0
       THEN /\ walletResponse' = Returned(FALSE)
            /\ UNCHANGED activeWalletId
       ELSE /\ activeWalletId' = id
            /\ walletResponse' = Returned(TRUE)
    /\ UNCHANGED wallets

\* wallet.ts:221-247  updateBalances: what it does to the wallet
newBalances(wallet) ==
    \E total \in BalanceInputs : wallets' = [wallets EXCEPT ![wallet].total = total]

\* wallet.ts:204-259  updateBalances() of the active wallet
updateBalances ==
    /\ IF getActiveWallet = 0
       THEN /\ walletResponse' = Failure("Wallet not found")
            /\ UNCHANGED wallets
       ELSE /\ newBalances(getActiveWallet)
            /\ walletResponse' = Success("true")
    /\ UNCHANGED activeWalletId

\* wallet.ts:311-362  depositToSidechain (feeRate is passed on and not read)
depositToSidechain(sidechainNumber, amount) ==
    /\ IF getActiveWallet = 0
       THEN /\ walletResponse' = Failure("No active wallet")
            /\ UNCHANGED <<wallets, bip300Vars>>
       ELSE IF InsufficientFunds(getActiveWallet, amount)
       THEN /\ walletResponse' = Failure("Insufficient funds")
            /\ UNCHANGED <<wallets, bip300Vars>>
       ELSE /\ createDepositTransaction(sidechainNumber)
            /\ IF response'.success /\ response'.data # "none"
               THEN /\ newBalances(getActiveWallet)
                    /\ walletResponse' = Success(response'.data)
               ELSE /\ walletResponse' = Failure(response'.error)
                    /\ UNCHANGED wallets
    /\ UNCHANGED activeWalletId

\* A call of the wallet service that stays within it.
OnlyWallet == UNCHANGED <<bip300Vars, electrumVars, network>>

CreateWallet == createWallet /\ OnlyWallet

RestoreWallet == restoreWallet /\ OnlyWallet

SetActiveWallet == \E id \in WalletIdInputs : setActiveWallet(id) /\ OnlyWallet

UpdateBalances == updateBalances /\ OnlyWallet

DepositToSidechain ==
    \E sc \in SidechainInputs, amount \in AmountInputs :
        depositToSidechain(sc, amount) /\ UNCHANGED <<electrumVars, network>>

NextWallet ==
    \/ CreateWallet \/ RestoreWallet \/ SetActiveWallet \/ UpdateBalances
    \/ DepositToSidechain

SpecWallet == Init /\ [][NextWallet]_vars

(* ------------------------- bundle states ------------------------------- *)

\* The state of a bundle as the service's data shows it.  A bundle record
\* holds a score and a count of remaining blocks and nothing else
\* (types/blockchain.ts:38-43): it is Succeeded when the withdrawal can be
\* executed (bip300.ts:316), Failed when no block remains below the
\* threshold, Active otherwise.  No field can mark a bundle Superseded.
BundleState(bundle) ==
    IF HasEnoughAcks(bundle) THEN "Succeeded"
    ELSE IF bundle.blocksRemaining = 0 THEN "Failed"
    ELSE "Active"

TerminalStates == {"Succeeded", "Failed", "Superseded"}

\* The escrow number is registered and its sidechain is active.
RegisteredActive(escrowNumber) ==
    \E i \in DOMAIN sidechains :
        sidechains[i].escrowNumber = escrowNumber /\ sidechains[i].isActive

\* The step is a call of the service (and not a new block).
IsCall(op) == calls' = calls + 1 /\ height' = height /\ lastCall'.op = op

\* The deadline window of bundle i has elapsed at height h.
WindowElapsed(i, h) == h >= proposedAtHeight[i] + deadlineWindow

(* ------------------------------- claims -------------------------------- *)

\* C1 (as claimed): in every reachable state each sidechain has at most one
\* withdrawal bundle in the Active state.
C1_SingleActive ==
    \A sc \in 0..255 :
        Cardinality({i \in DOMAIN withdrawalBundles :
                        /\ withdrawalBundles[i].sidechainNumber = sc
                        /\ BundleState(withdrawalBundles[i]) = "Active"}) <= 1

\* C2 (as claimed): a bundle becomes Succeeded only on a score that reaches
\* ackThreshold at a height h with proposedAtHeight <= h < proposedAtHeight +
\* deadlineWindow, never on a score reached outside the deadline window.
C2_ThresholdWithinWindow ==
    [][\A i \in DOMAIN withdrawalBundles :
          (/\ BundleState(withdrawalBundles[i]) # "Succeeded"
           /\ BundleState(withdrawalBundles'[i]) = "Succeeded")
          => ~WindowElapsed(i, lastCall'.at)]_vars

\* C3 (as claimed): a bundle that is still Active when its deadline window
\* has elapsed, with a score below ackThreshold, is Failed after the next
\* call, and once Failed it is never in any other state.
C3_Expiry ==
    [][\A i \in DOMAIN withdrawalBundles :
          (/\ height' = height
           /\ WindowElapsed(i, height)
           /\ BundleState(withdrawalBundles[i]) \in {"Active", "Failed"})
          => BundleState(withdrawalBundles'[i]) = "Failed"]_vars

\* C4 (as claimed): proposing bundle B2 for sidechain S while B1 is Active
\* for S moves B1 to Superseded and inserts B2 as Active with workScore 0.
C4_Supersession ==
    [][(/\ IsCall("createWithdrawalBundleProposal")
        /\ \E i \in DOMAIN withdrawalBundles :
              /\ withdrawalBundles[i].sidechainNumber = lastCall'.sidechainNumber
              /\ BundleState(withdrawalBundles[i]) = "Active")
       => (/\ Len(withdrawalBundles') = Len(withdrawalBundles) + 1
           /\ withdrawalBundles'[Len(withdrawalBundles')].bundleHash = lastCall'.bundleHash
           /\ withdrawalBundles'[Len(withdrawalBundles')].workScore = 0
           /\ BundleState(withdrawalBundles'[Len(withdrawalBundles')]) = "Active"
           /\ \A i \in DOMAIN withdrawalBundles :
                 (/\ withdrawalBundles[i].sidechainNumber = lastCall'.sidechainNumber
                  /\ BundleState(withdrawalBundles[i]) = "Active")
                 => BundleState(withdrawalBundles'[i]) = "Superseded")]_vars

\* C5 (as claimed): finalize of a Succeeded bundle succeeds only if the
\* registry holds a CTIP for the bundle's sidechain that equals the CTIP the
\* bundle expects; a bundle of a sidechain with no CTIP cannot be finalized.
C5_FinalizeRequiresCtip ==
    (lastCall.op = "createWithdrawalTransaction" /\ response.success)
    => \E i \in DOMAIN withdrawalBundles :
          /\ withdrawalBundles[i].bundleHash = lastCall.bundleHash
          /\ BundleState(withdrawalBundles[i]) = "Succeeded"
          /\ \E s \in DOMAIN sidechains :
                sidechains[s].escrowNumber = withdrawalBundles[i].sidechainNumber

\* C6 (as claimed): after blocks have been processed up to height H, a
\* propose or applyAck call for a height lower than H is rejected with
\* OutOfOrderBlock and mutates no ledger or registry state.
C6_OrderSensitivity ==
    [][(/\ \/ IsCall("createWithdrawalBundleProposal")
           \/ IsCall("simulateAckWithdrawalBundle")
        /\ lastCall'.at < height)
       => (/\ ~response'.success
           /\ response'.error = "OutOfOrderBlock"
           /\ UNCHANGED <<withdrawalBundles, sidechains>>)]_vars

\* C7: createWithdrawalTransaction succeeds only for an existing bundle whose
\* workScore is at least 13,150; for an unknown bundle and for a bundle below
\* the threshold it returns a failure; and it changes no state either way.
C7_WithdrawalNeedsAcks ==
    [][IsCall("createWithdrawalTransaction")
       => LET found == {i \in DOMAIN withdrawalBundles :
                           withdrawalBundles[i].bundleHash = lastCall'.bundleHash}
          IN  /\ response'.success
                 => \E i \in found : withdrawalBundles[i].workScore >= 13150
              /\ found = {} => ~response'.success
              /\ (\A i \in found : withdrawalBundles[i].workScore < 13150)
                 => ~response'.success
              /\ UNCHANGED <<withdrawalBundles, sidechains>>]_vars

\* C7 witness: a withdrawal has just been executed for a bundle that
\* gathered its score through ACKs.
C7_Witness ==
    /\ lastCall.op = "createWithdrawalTransaction"
    /\ response.success
    /\ \E i \in DOMAIN withdrawalBundles :
          /\ withdrawalBundles[i].bundleHash = lastCall.bundleHash
          /\ withdrawalBundles[i].workScore >= 13150

\* C8 (as claimed): once a bundle is Succeeded, Failed or Superseded, no
\* later operation changes its state or its workScore.
C8_TerminalImmutable ==
    [][\A i \in DOMAIN withdrawalBundles :
          BundleState(withdrawalBundles[i]) \in TerminalStates
          => (/\ BundleState(withdrawalBundles'[i]) = BundleState(withdrawalBundles[i])
              /\ withdrawalBundles'[i].workScore = withdrawalBundles[i].workScore)]_vars

\* C9 (as claimed): propose fails with DuplicateBundle when the given
\* bundleHash already exists in a non-terminal state for that sidechain, and
\* the failed call leaves the ledger unchanged (so no two non-terminal
\* bundles of one sidechain ever share a hash).
C9_DuplicateBundle ==
    [][(/\ IsCall("createWithdrawalBundleProposal")
        /\ lastCall'.at = height
        /\ \E i \in DOMAIN withdrawalBundles :
              /\ withdrawalBundles[i].sidechainNumber = lastCall'.sidechainNumber
              /\ withdrawalBundles[i].bundleHash = lastCall'.bundleHash
              /\ BundleState(withdrawalBundles[i]) \notin TerminalStates)
       => (/\ ~response'.success
           /\ response'.error = "DuplicateBundle"
           /\ UNCHANGED withdrawalBundles)]_vars

\* C10 (as claimed): propose fails with UnknownSidechain when the sidechain
\* number is not registered or the sidechain is inactive, and then no bundle
\* is added and no existing bundle changes.
C10_UnknownSidechain ==
    [][(/\ IsCall("createWithdrawalBundleProposal")
        /\ lastCall'.at = height
        /\ ~RegisteredActive(lastCall'.sidechainNumber))
       => (/\ ~response'.success
           /\ response'.error = "UnknownSidechain"
           /\ UNCHANGED withdrawalBundles)]_vars

\* The indices of the bundles with the given hash.
BundlesWithHash(bundleHash) ==
    {i \in DOMAIN withdrawalBundles : withdrawalBundles[i].bundleHash = bundleHash}

\* C11 (as claimed): a bundle gains at most one point per block, so in every
\* reachable state workScore(b) is at most the number of blocks processed
\* since b was proposed (the block of the proposal included).
C11_ScoreWithinBlockWindow ==
    \A i \in DOMAIN withdrawalBundles :
        withdrawalBundles[i].workScore <= height - proposedAtHeight[i] + 1

\* C12 (as claimed): a bundle's workScore is never negative and never
\* decreases while the bundle is Active.
C12_ScoreMonotone ==
    [][\A i \in DOMAIN withdrawalBundles :
          /\ withdrawalBundles'[i].workScore >= 0
          /\ BundleState(withdrawalBundles[i]) = "Active"
             => withdrawalBundles'[i].workScore >= withdrawalBundles[i].workScore]_vars

\* C13 (as claimed): applyAck fails when the hash is not found or the bundle
\* is not Active (UnknownBundle) and when atHeight exceeds the bundle's
\* deadline (StaleBundle); in every failing case no bundle changes.
C13_AckFailures ==
    [][IsCall("simulateAckWithdrawalBundle")
       => LET found == BundlesWithHash(lastCall'.bundleHash) IN
          /\ (\A i \in found : BundleState(withdrawalBundles[i]) # "Active")
             => ~response'.success
          /\ (\E i \in found : WindowElapsed(i, lastCall'.at))
             => ~response'.success
          /\ ~response'.success => UNCHANGED withdrawalBundles]_vars

\* C14 (as claimed): a bundle whose deadline window has elapsed below the
\* threshold gains no score from the ACKs of that block or of any later block.
C14_NoScoreAfterDeadline ==
    [][\A i \in DOMAIN withdrawalBundles :
          (/\ WindowElapsed(i, height)
           /\ BundleState(withdrawalBundles[i]) \in {"Active", "Failed"})
          => withdrawalBundles'[i].workScore = withdrawalBundles[i].workScore]_vars

\* C15 (as claimed): after a successful finalize the registry's CTIP for the
\* bundle's sidechain is the return output of the withdrawal transaction, the
\* bundle is still Succeeded, and a bundle is finalized at most once.
C15_FinalizeEffect ==
    [][(IsCall("createWithdrawalTransaction") /\ response'.success)
       => /\ ~(/\ lastCall.op = "createWithdrawalTransaction"
               /\ response.success
               /\ lastCall.bundleHash = lastCall'.bundleHash)
          /\ \A i \in BundlesWithHash(lastCall'.bundleHash) :
                /\ BundleState(withdrawalBundles'[i]) = "Succeeded"
                /\ LET s == findSidechain(withdrawalBundles[i].sidechainNumber) IN
                     s # 0 => /\ sidechains'[s].ctip # sidechains[s].ctip
                              /\ sidechains'[s].ctip.txid = response'.data]_vars

\* C16 (as claimed): a sidechain's CTIP changes only through a successful
\* finalize or an applied deposit, where it is replaced by the new CTIP; no
\* other call changes the registry, and a registered sidechain is never
\* removed.
C16_CtipFrame ==
    [][/\ sidechains' # sidechains
          => /\ \/ IsCall("createWithdrawalTransaction")
                \/ IsCall("createDepositTransaction")
             /\ response'.success
       /\ (IsCall("createDepositTransaction") /\ response'.success)
          => LET s == findSidechain(lastCall'.sidechainNumber) IN
             sidechains'[s].ctip # sidechains[s].ctip
       /\ \A s \in DOMAIN sidechains :
             /\ s \in DOMAIN sidechains'
             /\ sidechains'[s].escrowNumber = sidechains[s].escrowNumber]_vars

C19_UniqueEscrowNumbers ==
    /\ \A i, j \in DOMAIN sidechains :
          i # j => sidechains[i].escrowNumber # sidechains[j].escrowNumber
    /\ (/\ lastCall.op \in {"getSidechain", "createDepositTransaction"}
        /\ findSidechain(lastCall.sidechainNumber) = 0)
       => /\ ~response.success
          /\ response.data = "none"
          /\ response.error = "Sidechain not found"

\* An unregistered escrow number has been looked up.
C19_Witness ==
    /\ lastCall.op = "getSidechain"
    /\ findSidechain(lastCall.sidechainNumber) = 0
    /\ ~response.success

\* The larger of 0 and n.
AtLeastZero(n) == IF n < 0 THEN 0 ELSE n

\* C20 (as claimed): whenever the service has handled a call,
\* blocksRemaining(b) = max(0, deadlineWindow - (currentHeight - proposedAtHeight(b))).
C20_BlocksRemaining ==
    [][(calls' = calls + 1 /\ height' = height)
       => \A i \in DOMAIN withdrawalBundles' :
             withdrawalBundles'[i].blocksRemaining =
               AtLeastZero(deadlineWindow - (height - proposedAtHeight'[i]))]_vars

\* The events of the block report (spec 5).
EventNames == {"BundleSuperseded", "BundleSucceeded", "BundleFailed",
               "BundleFinalized", "BundleFinalizeRejected"}

\* C22 (as claimed): what a step returns matches its transitions: a step in
\* which a bundle changes state returns an event naming the change, and a
\* step returns no event when no bundle changed state.
C22_EventsMatchTransitions ==
    [][LET changed == {i \in DOMAIN withdrawalBundles :
                          BundleState(withdrawalBundles'[i]) # BundleState(withdrawalBundles[i])}
       IN /\ changed # {} => response'.data \in EventNames
          /\ (/\ changed = {}
              /\ ~IsCall("createWithdrawalTransaction")
              /\ response' # response) => response'.data \notin EventNames]_vars

\* A value an operation returned is a result: a success flag, and an error
\* when the flag is false.
IsResult(r) ==
    /\ DOMAIN r = {"success", "data", "error"}
    /\ r.success \in BOOLEAN
    /\ ~r.success => r.error # "none"

\* C23: every operation ends by returning a success value or an error value,
\* never by an exception: whatever a connect call or a query has returned is
\* a result, also when connect is given a network it has no servers for.
C23_OperationsReturnResults ==
    /\ IsResult(electrumResponse)
    /\ \A c \in DOMAIN connectCalls :
          connectCalls[c].returned => IsResult(connectCalls[c].result)

\* connect has failed inside its try block and returned the error.
C23_Witness ==
    /\ connectionStatus = "error"
    /\ \E c \in DOMAIN connectCalls :
          connectCalls[c].returned /\ ~connectCalls[c].result.success

\* C24: no connect call blocks for ever: with timers firing and awaits
\* resuming, every connect call that was made eventually returns, whether
\* it started the attempt or waits on another call's attempt.
C24_ConnectReturns ==
    \A c \in 1..MaxConnects :
        (c \in DOMAIN connectCalls)
        ~> (c \in DOMAIN connectCalls /\ connectCalls[c].returned)

\* A connect call that waited on another call's attempt has returned.
C24_Witness ==
    \E c \in DOMAIN connectCalls :
        /\ ~connectCalls[c].creator
        /\ connectCalls[c].promise # 0
        /\ connectCalls[c].returned

\* C25 (as claimed): at most one connection attempt is in flight at any time.
C25_OneAttemptInFlight == Len(timers) <= 1

\* C26 (as claimed): connectionStatus CONNECTED implies that a server is
\* selected.
C26_ConnectedHasServer == connectionStatus = "connected" => server # "null"

\* C27 (as claimed): once every pending connection attempt has settled, the
\* Electrum service's network equals the wallet service's network.
C27_NetworksAgree ==
    (timers = << >> /\ microtasks = << >>) => electrumNetwork = network.wallet

\* C28: a query returns success only when connectionStatus is CONNECTED at
\* the time of the call; in any other status it returns the 'Not connected
\* to Electrum server' error; and it changes no state of the service.
C28_QueriesNeedConnection ==
    [][ElectrumQueries
       => /\ electrumResponse'.success <=> connectionStatus = "connected"
          /\ connectionStatus # "connected"
             => electrumResponse' = Failure("Not connected to Electrum server")
          /\ UNCHANGED <<electrumNetwork, server, connectionStatus, connectionPromise,
                         promises, timers, connectCalls, microtasks>>]_vars

\* A query has been refused while a connection attempt was pending.
C28_Witness ==
    /\ connectionStatus = "connecting"
    /\ electrumResponse = Failure("Not connected to Electrum server")

\* C29: a deposit reaches the BIP300 service only when it is covered:
\* depositToSidechain calls createDepositTransaction only if there is an
\* active wallet whose total is at least the amount, and it returns a
\* failure with no transaction id and changes no balance when there is no
\* active wallet, the balance is insufficient or the sidechain is unknown.
C29_DepositCovered ==
    [][\A sc \in SidechainInputs, amount \in AmountInputs :
          (depositToSidechain(sc, amount) /\ UNCHANGED <<electrumVars, network>>)
          => /\ calls' # calls
                => /\ getActiveWallet # 0
                   /\ wallets[getActiveWallet].total >= amount
                   /\ lastCall'.op = "createDepositTransaction"
             /\ (\/ getActiveWallet = 0
                 \/ wallets[getActiveWallet].total < amount
                 \/ findSidechain(sc) = 0)
                => /\ ~walletResponse'.success
                   /\ walletResponse'.data = "none"
                   /\ wallets' = wallets]_vars

\* A deposit above the balance has been refused before any call of the
\* BIP300 service was made.
C29_Witness ==
    /\ walletResponse = Failure("Insufficient funds")
    /\ lastCall.op = "constructor"

\* C30: all wallet ids are pairwise distinct and activeWalletId refers to an
\* existing wallet; setActiveWallet with an unknown id returns false and
\* leaves the active wallet unchanged.
C30_WalletIds ==
    /\ [](/\ \A i, j \in DOMAIN wallets : i # j => wallets[i].id # wallets[j].id
          /\ getActiveWallet # 0)
    /\ [][\A id \in WalletIdInputs :
             (setActiveWallet(id) /\ OnlyWallet /\ getWallet(id) = 0)
             => /\ walletResponse' = Returned(FALSE)
                /\ activeWalletId' = activeWalletId]_vars

\* setActiveWallet has been called with an unknown id after a wallet was added.
C30_Witness ==
    /\ Len(wallets) > 1
    /\ walletResponse = Returned(FALSE)

====
